---- MODULE Spec2Model ----
(***************************************************************************)
(* Model of fishroom/models.py: the Color / TextStyle / rich-text codecs   *)
(* and the Message envelope, serialised through marshmallow schemas that   *)
(* are constructed without strict mode (the code reads `.data` of the      *)
(* (data, errors) result and never looks at `.errors`).                    *)
(*                                                                         *)
(* Python and JSON values are tagged records; every tag has its own        *)
(* payload field so that values of different Python types are comparable.  *)
(* A Python str is a sequence of one-character strings, so that iterating  *)
(* a str and int() of a str are computed, not tabulated.                   *)
(***************************************************************************)
EXTENDS Integers, Sequences, FiniteSets, TLC

VARIABLES op, arg, ret, orig, msgs, heap, seen, last

vars == <<op, arg, ret, orig, msgs, heap, seen, last>>

-----------------------------------------------------------------------------
(* Bounds of the model                                                     *)

MaxLen == 3        \* longest list given as a colour or as style names
MaxRuns == 2       \* longest rich text
MaxObjs == 3       \* Message objects returned in one call sequence
MaxKeys == 1       \* most keys an opt mapping grows to

-----------------------------------------------------------------------------
(* Python values                                                           *)

None == [t |-> "none"]
Missing == [t |-> "missing"]          \* attribute / key not there at all
VInt(n) == [t |-> "int", i |-> n]
VBool(b) == [t |-> "bool", b |-> b]
VStr(s) == [t |-> "str", s |-> s]
VList(q) == [t |-> "list", q |-> q]
VTuple(q) == [t |-> "tuple", q |-> q]
\* a dict is its <<key, value>> pairs in insertion order; keys are strings
VDict(d) == [t |-> "dict", d |-> d]
VBytes(valid, s) == [t |-> "bytes", valid |-> valid, s |-> s]

Ok(v) == [t |-> "ok", v |-> v]
Raise(e) == [t |-> "raise", e |-> e]

ValidationError == "ValidationError"

SeqsUpTo(S, n) == UNION {[1..k -> S] : k \in 0..n}

\* strings of the source, spelled as character sequences
s_italic == <<"i","t","a","l","i","c">>
s_bold == <<"b","o","l","d">>
s_underline == <<"u","n","d","e","r","l","i","n","e">>
s_color == <<"c","o","l","o","r">>
s_style == <<"s","t","y","l","e">>
s_sparkle == <<"s","p","a","r","k","l","e">>
s_red == <<"r","e","d">>
s_12 == <<"1","2">>
s_channel == <<"c","h","a","n","n","e","l">>
s_sender == <<"s","e","n","d","e","r">>
s_receiver == <<"r","e","c","e","i","v","e","r">>
s_mtype == <<"m","t","y","p","e">>
s_media_url == <<"m","e","d","i","a","_","u","r","l">>
s_content == <<"c","o","n","t","e","n","t">>
s_rich_text == <<"r","i","c","h","_","t","e","x","t">>
s_date == <<"d","a","t","e">>
s_time == <<"t","i","m","e">>
s_botmsg == <<"b","o","t","m","s","g">>
s_room == <<"r","o","o","m">>
s_opt == <<"o","p","t">>
s_fishroom == <<"f","i","s","h","r","o","o","m">>
s_None == <<"N","o","n","e">>
s_Error == <<"E","r","r","o","r">>
s_tester == <<"t","e","s","t","e","r">>
s_tester2 == <<"t","e","s","t","e","r","2">>
s_test == <<"t","e","s","t">>
s_bogus == <<"b","o","g","u","s">>
s_null == <<"n","u","l","l">>
s_true == <<"t","r","u","e">>
s_false == <<"f","a","l","s","e">>
s_key == <<"k","e","y">>

\* bool(value): Python truthiness
Truthy(v) ==
    CASE v.t = "none" -> FALSE
      [] v.t = "missing" -> FALSE
      [] v.t = "int" -> v.i # 0
      [] v.t = "bool" -> v.b
      [] v.t = "str" -> Len(v.s) > 0
      [] v.t = "list" -> Len(v.q) > 0
      [] v.t = "tuple" -> Len(v.q) > 0
      [] v.t = "dict" -> Len(v.d) > 0
      [] OTHER -> TRUE                  \* plain objects (Color, TextStyle)

\* iter(value): the elements a for-loop, map() or set() walks over
Iter(v) ==
    CASE v.t \in {"list", "tuple"} -> Ok(v.q)
      [] v.t = "str" -> Ok([k \in 1..Len(v.s) |-> VStr(<<v.s[k]>>)])
      [] v.t = "dict" -> Ok([k \in 1..Len(v.d) |-> VStr(v.d[k][1])])
      [] OTHER -> Raise("TypeError")

Digits == <<"0","1","2","3","4","5","6","7","8","9">>

IsDigit(c) == \E d \in 1..10 : Digits[d] = c

DigitVal(c) == (CHOOSE d \in 1..10 : Digits[d] = c) - 1

RECURSIVE DecVal(_)
DecVal(s) ==
    IF Len(s) = 0 THEN 0
    ELSE 10 * DecVal(SubSeq(s, 1, Len(s) - 1)) + DigitVal(s[Len(s)])

\* int(x) as map(int, value) applies it to one element
IntOf(v) ==
    CASE v.t = "int" -> Ok(v.i)
      [] v.t = "bool" -> Ok(IF v.b THEN 1 ELSE 0)
      [] v.t = "str" ->
            IF Len(v.s) > 0 /\ \A k \in 1..Len(v.s) : IsDigit(v.s[k])
            THEN Ok(DecVal(v.s)) ELSE Raise("ValueError")
      [] OTHER -> Raise("TypeError")

-----------------------------------------------------------------------------
(* Color and ColorField                                                    *)

\* Color.__init__(fg, bg=None): stores both as given
Color(fg, bg) == [t |-> "Color", fg |-> fg, bg |-> bg]

ColorField_serialize(value) ==
    IF value.t = "none" THEN Ok(VStr(<<>>))
    ELSE Ok(VTuple(<<value.fg, value.bg>>))

ColorField_deserialize(value) ==
    IF ~Truthy(value) THEN Ok(None)
    ELSE IF value.t \in {"int", "bool"} THEN Ok(Color(value, None))
    ELSE LET it == Iter(value) IN
         IF it.t = "raise" \/ Len(it.v) # 2 THEN Raise(ValidationError)
         ELSE LET fg == IntOf(it.v[1])
                  bg == IntOf(it.v[2]) IN
              IF fg.t = "raise" \/ bg.t = "raise" THEN Raise(ValidationError)
              ELSE Ok(Color(VInt(fg.v), VInt(bg.v)))

-----------------------------------------------------------------------------
(* TextStyle bit mask                                                      *)

NORMAL == 0
COLOR == 1
ITALIC == 2
BOLD == 4
UNDERLINE == 8

\* style & bit  (bit is a power of two)
HasBit(style, bit) == (style \div bit) % 2 = 1

\* style | bit
OrBit(style, bit) == IF HasBit(style, bit) THEN style ELSE style + bit

\* TextStyle.__init__ that attaches the colour and forgets `style |= COLOR`
TextStyle_nobit(color, italic, bold, underline, style) ==
    LET s2 == IF italic THEN OrBit(style, ITALIC) ELSE style
        s3 == IF bold THEN OrBit(s2, BOLD) ELSE s2
        s4 == IF underline THEN OrBit(s3, UNDERLINE) ELSE s3
    IN [t |-> "TextStyle", style |-> s4,
        color |-> IF Truthy(color) THEN color ELSE Missing]

\* TextStyle.__init__: the attribute color exists only when a colour is given
TextStyle(color, italic, bold, underline, style) ==
    LET s1 == IF Truthy(color) THEN OrBit(style, COLOR) ELSE style
        s2 == IF italic THEN OrBit(s1, ITALIC) ELSE s1
        s3 == IF bold THEN OrBit(s2, BOLD) ELSE s2
        s4 == IF underline THEN OrBit(s3, UNDERLINE) ELSE s3
    IN [t |-> "TextStyle", style |-> s4,
        color |-> IF Truthy(color) THEN color ELSE Missing]

\* style_list that tests BOLD where it should test UNDERLINE
style_list_boldtwice(style) ==
    (IF HasBit(style, ITALIC) THEN <<VStr(s_italic)>> ELSE <<>>)
    \o (IF HasBit(style, BOLD) THEN <<VStr(s_bold)>> ELSE <<>>)
    \o (IF HasBit(style, BOLD) THEN <<VStr(s_underline)>> ELSE <<>>)

style_list(style) ==
    (IF HasBit(style, ITALIC) THEN <<VStr(s_italic)>> ELSE <<>>)
    \o (IF HasBit(style, BOLD) THEN <<VStr(s_bold)>> ELSE <<>>)
    \o (IF HasBit(style, UNDERLINE) THEN <<VStr(s_underline)>> ELSE <<>>)

TextStyleField_serialize(value) ==
    IF value.t = "none" THEN Ok(VList(<<>>))
    ELSE Ok(VList(style_list(value.i)))

\* set(value) needs an iterable of hashable elements
TextStyleField_deserialize(value) ==
    LET it == Iter(value) IN
    IF it.t = "raise" \/ \E k \in 1..Len(it.v) : it.v[k].t \in {"list", "dict"}
    THEN Raise(ValidationError)
    ELSE LET styles == {it.v[k] : k \in 1..Len(it.v)}
             s1 == IF VStr(s_italic) \in styles THEN OrBit(NORMAL, ITALIC) ELSE NORMAL
             s2 == IF VStr(s_bold) \in styles THEN OrBit(s1, BOLD) ELSE s1
             s3 == IF VStr(s_underline) \in styles THEN OrBit(s2, UNDERLINE) ELSE s2
         IN Ok(VInt(s3))

-----------------------------------------------------------------------------
(* The marshmallow layer as the code uses it: schemas built with no strict *)
(* option, results read through `.data` only.  A field whose (de)serialiser *)
(* raises ValidationError is left out of `.data`; nothing is raised.       *)

\* value of key in a dict, Missing when the key is not there
Get(d, key) ==
    IF \E k \in 1..Len(d.d) : d.d[k][1] = key
    THEN d.d[CHOOSE k \in 1..Len(d.d) : d.d[k][1] = key][2]
    ELSE Missing

\* one field through Schema.dump: a raising serialiser drops the field
DumpField(key, r) == IF r.t = "raise" THEN <<>> ELSE << <<key, r.v>> >>

\* one field through Schema.load: `missing=` default for an absent key, None
\* refused unless the field allows it, a raising deserialiser drops the field
LoadField(raw, hasDefault, default, allowNone, r) ==
    IF raw.t = "missing" /\ ~hasDefault THEN Missing
    ELSE LET v == IF raw.t = "missing" THEN default ELSE raw IN
         IF v.t = "none" THEN (IF allowNone THEN None ELSE Missing)
         ELSE IF r.t = "raise" THEN Missing ELSE r.v

\* TextStyleSchema: color = ColorField(missing=None), style = TextStyleField(missing=[])
TextStyleSchema_dump(ts) ==
    VDict((IF ts.color.t = "missing" THEN <<>>
           ELSE DumpField(s_color, ColorField_serialize(ts.color)))
          \o DumpField(s_style, TextStyleField_serialize(VInt(ts.style))))

\* .data of TextStyleSchema.load: None for a None input, an empty mapping for
\* any other input that is not a mapping
TextStyleSchema_load(data) ==
    IF data.t = "none" THEN None
    ELSE IF data.t # "dict" THEN [color |-> Missing, style |-> Missing]
    ELSE LET rc == Get(data, s_color)
             rs == Get(data, s_style)
         IN [color |-> LoadField(rc, TRUE, None, TRUE,
                           ColorField_deserialize(IF rc.t = "missing" THEN None ELSE rc)),
             style |-> LoadField(rs, TRUE, VList(<<>>), FALSE,
                           TextStyleField_deserialize(IF rs.t = "missing" THEN VList(<<>>) ELSE rs))]

\* TextStyle.dump
TextStyle_dump(ts) == TextStyleSchema_dump(ts)

\* TextStyle.load: TextStyle(**data); a keyword left out takes its default
TextStyle_load(data) ==
    LET kw == TextStyleSchema_load(data) IN
    IF kw = None THEN Raise("TypeError")
    ELSE Ok(TextStyle(IF kw.color.t = "missing" THEN None ELSE kw.color,
                      FALSE, FALSE, FALSE,
                      IF kw.style.t = "missing" THEN 0 ELSE kw.style.i))

-----------------------------------------------------------------------------
(* RichTextField                                                           *)

\* a run is a Python tuple (style, text)
Run(style, text) == VTuple(<<style, text>>)

\* `for style, text in value`: every element unpacks into exactly two
UnpacksToPairs(value) ==
    /\ Iter(value).t = "ok"
    /\ \A k \in 1..Len(Iter(value).v) :
          /\ Iter(Iter(value).v[k]).t = "ok"
          /\ Len(Iter(Iter(value).v[k]).v) = 2

PairAt(value, k) == Iter(Iter(value).v[k]).v

RichTextField_serialize(value) ==
    IF value.t = "none" THEN Ok(None)
    ELSE IF ~UnpacksToPairs(value) THEN Raise(ValidationError)
    ELSE IF \E k \in 1..Len(Iter(value).v) :
               \/ PairAt(value, k)[1].t # "TextStyle"
               \/ PairAt(value, k)[2].t # "str"
         THEN Raise(ValidationError)
    ELSE Ok(VList([k \in 1..Len(Iter(value).v) |->
                     VTuple(<<TextStyle_dump(PairAt(value, k)[1]), PairAt(value, k)[2]>>)]))

RichTextField_deserialize(value) ==
    IF value.t = "none" THEN Ok(None)
    ELSE IF ~UnpacksToPairs(value) THEN Raise(ValidationError)
    ELSE IF \E k \in 1..Len(Iter(value).v) : TextStyle_load(PairAt(value, k)[1]).t = "raise"
         THEN Raise(ValidationError)
    ELSE Ok(VList([k \in 1..Len(Iter(value).v) |->
                     Run(TextStyle_load(PairAt(value, k)[1]).v, PairAt(value, k)[2])]))

-----------------------------------------------------------------------------
(* ChannelType and MessageType                                             *)

ChannelType == [XMPP |-> VStr(<<"x","m","p","p">>),
                IRC |-> VStr(<<"i","r","c">>),
                Telegram |-> VStr(<<"t","e","l","e","g","r","a","m">>),
                Web |-> VStr(<<"w","e","b">>),
                API |-> VStr(<<"a","p","i">>)]

MessageType == [Text |-> VStr(<<"t","e","x","t">>),
                Photo |-> VStr(<<"p","h","o","t","o">>),
                Sticker |-> VStr(<<"s","t","i","c","k","e","r">>),
                Location |-> VStr(<<"l","o","c","a","t","i","o","n">>),
                Audio |-> VStr(<<"a","u","d","i","o">>),
                Video |-> VStr(<<"v","i","d","e","o">>),
                Animation |-> VStr(<<"a","n","i","m","a","t","i","o","n">>),
                File |-> VStr(<<"f","i","l","e">>),
                Event |-> VStr(<<"e","v","e","n","t">>),
                Command |-> VStr(<<"c","o","m","m","a","n","d">>)]

\* the choices of validate.OneOf on MessageSchema.mtype
MtypeChoices ==
    {MessageType.Photo, MessageType.Text, MessageType.Sticker,
     MessageType.Location, MessageType.Audio, MessageType.Command,
     MessageType.Event, MessageType.File, MessageType.Animation,
     MessageType.Video}

-----------------------------------------------------------------------------
(* JSON text.  VStr(chars) is arbitrary text over letters and digits;      *)
(* JsonText(j) is the document json.dumps writes for the value j.          *)

JsonText(j) == [t |-> "jsontext", j |-> j]

\* what json.dumps keeps of a value: tuples come out as arrays
RECURSIVE ToJson(_)
ToJson(v) ==
    CASE v.t \in {"list", "tuple"} -> VList([k \in 1..Len(v.q) |-> ToJson(v.q[k])])
      [] v.t = "dict" -> VDict([k \in 1..Len(v.d) |-> <<v.d[k][1], ToJson(v.d[k][2])>>])
      [] OTHER -> v

json_dumps(v) == JsonText(ToJson(v))

\* json.loads of a text: a document gives its value; text made of letters and
\* digits only is JSON exactly when it is a number or one of null/true/false
json_loads(text) ==
    IF text.t = "jsontext" THEN Ok(text.j)
    ELSE IF text.s = s_null THEN Ok(None)
    ELSE IF text.s = s_true THEN Ok(VBool(TRUE))
    ELSE IF text.s = s_false THEN Ok(VBool(FALSE))
    ELSE IF /\ Len(text.s) > 0
            /\ \A k \in 1..Len(text.s) : IsDigit(text.s[k])
            /\ (Len(text.s) > 1 => text.s[1] # "0")
         THEN Ok(VInt(DecVal(text.s)))
    ELSE Raise("ValueError")

\* bytes.decode('utf-8')
decode_utf8(b) == IF b.valid THEN Ok(b.s) ELSE Raise("UnicodeDecodeError")

-----------------------------------------------------------------------------
(* Message and MessageSchema                                               *)

\* Message.__init__ (defaults are supplied by the callers below)
Message(channel, sender, receiver, content, mtype, date, time, media_url, botmsg, room, opt, rich_text) ==
    [t |-> "Message", channel |-> channel, sender |-> sender,
     receiver |-> receiver, content |-> content, rich_text |-> rich_text,
     mtype |-> mtype, date |-> date, time |-> time, media_url |-> media_url,
     botmsg |-> botmsg, room |-> room,
     opt |-> IF Truthy(opt) THEN opt ELSE VDict(<<>>)]

\* Message("fishroom", "fishroom", "None", "Error")
Sentinel ==
    Message(VStr(s_fishroom), VStr(s_fishroom), VStr(s_None), VStr(s_Error),
            MessageType.Text, None, None, None, VBool(FALSE), None, None, None)

\* fields.String: None and str pass through on dump (the model dumps nothing else)
String_serialize(v) == Ok(v)

String_deserialize(v) == IF v.t = "str" THEN Ok(v) ELSE Raise(ValidationError)

\* fields.String(validate=OneOf(...)): the validator runs on the deserialised value
Mtype_deserialize(v) ==
    IF v.t = "str" /\ v \in MtypeChoices THEN Ok(v) ELSE Raise(ValidationError)

\* fields.Boolean (of its truthy / falsy spellings, the lower-case ones)
Boolean_deserialize(v) ==
    CASE v.t = "bool" -> Ok(v)
      [] v.t = "int" /\ v.i \in {0, 1} -> Ok(VBool(v.i = 1))
      [] v.t = "str" /\ v.s \in {s_true, <<"1">>, <<"t">>} -> Ok(VBool(TRUE))
      [] v.t = "str" /\ v.s \in {s_false, <<"0">>, <<"f">>} -> Ok(VBool(FALSE))
      [] OTHER -> Raise(ValidationError)

Boolean_serialize(v) ==
    IF v.t = "none" THEN Ok(None)
    ELSE IF Boolean_deserialize(v).t = "ok" THEN Boolean_deserialize(v)
    ELSE Ok(VBool(Truthy(v)))

\* fields.Dict
Dict_serialize(v) == Ok(v)

Dict_deserialize(v) == IF v.t = "dict" THEN Ok(v) ELSE Raise(ValidationError)

MessageSchema_dump(m) ==
    VDict(DumpField(s_channel, String_serialize(m.channel))
          \o DumpField(s_sender, String_serialize(m.sender))
          \o DumpField(s_receiver, String_serialize(m.receiver))
          \o DumpField(s_mtype, String_serialize(m.mtype))
          \o DumpField(s_media_url, String_serialize(m.media_url))
          \o DumpField(s_content, String_serialize(m.content))
          \o DumpField(s_rich_text, RichTextField_serialize(m.rich_text))
          \o DumpField(s_date, String_serialize(m.date))
          \o DumpField(s_time, String_serialize(m.time))
          \o DumpField(s_botmsg, Boolean_serialize(m.botmsg))
          \o DumpField(s_room, String_serialize(m.room))
          \o DumpField(s_opt, Dict_serialize(m.opt)))

\* one plain field of MessageSchema: no `missing=`, None not allowed
MsgField(data, key, r) == LoadField(Get(data, key), FALSE, None, FALSE, r)

\* no keyword at all
NoKw ==
    [channel |-> Missing, sender |-> Missing, receiver |-> Missing,
     mtype |-> Missing, media_url |-> Missing, content |-> Missing,
     rich_text |-> Missing, date |-> Missing, time |-> Missing,
     botmsg |-> Missing, room |-> Missing, opt |-> Missing]

\* .data of MessageSchema.load: None for a None input, an empty mapping for
\* any other input that is not a mapping
MessageSchema_load(data) ==
    IF data.t = "none" THEN None
    ELSE IF data.t # "dict" THEN NoKw
    ELSE [channel |-> MsgField(data, s_channel, String_deserialize(Get(data, s_channel))),
          sender |-> MsgField(data, s_sender, String_deserialize(Get(data, s_sender))),
          receiver |-> MsgField(data, s_receiver, String_deserialize(Get(data, s_receiver))),
          mtype |-> MsgField(data, s_mtype, Mtype_deserialize(Get(data, s_mtype))),
          media_url |-> MsgField(data, s_media_url, String_deserialize(Get(data, s_media_url))),
          content |-> MsgField(data, s_content, String_deserialize(Get(data, s_content))),
          rich_text |-> MsgField(data, s_rich_text, RichTextField_deserialize(Get(data, s_rich_text))),
          date |-> MsgField(data, s_date, String_deserialize(Get(data, s_date))),
          time |-> MsgField(data, s_time, String_deserialize(Get(data, s_time))),
          botmsg |-> MsgField(data, s_botmsg, Boolean_deserialize(Get(data, s_botmsg))),
          room |-> MsgField(data, s_room, String_deserialize(Get(data, s_room))),
          opt |-> MsgField(data, s_opt, Dict_deserialize(Get(data, s_opt)))]

\* keyword argument with its default from Message.__init__
Kw(v, default) == IF v.t = "missing" THEN default ELSE v

\* Message.dumps: the schema's .data written as JSON, errors never looked at
Message_dumps(m) == Ok(json_dumps(MessageSchema_dump(m)))

\* Message.loads: the decode of bytes is outside the try block
Message_loads(jstr) ==
    LET text == IF jstr.t = "bytes" THEN decode_utf8(jstr) ELSE Ok(jstr) IN
    IF text.t = "raise" THEN text
    ELSE LET parsed == json_loads(text.v) IN
         IF parsed.t = "raise" THEN Ok(Sentinel)
         ELSE LET kw == MessageSchema_load(parsed.v) IN
              IF kw = None THEN Ok(Sentinel)
              ELSE IF \E f \in {"channel", "sender", "receiver", "content"} : kw[f].t = "missing"
                   THEN Ok(Sentinel)
              ELSE Ok(Message(kw.channel, kw.sender, kw.receiver, kw.content,
                              Kw(kw.mtype, MessageType.Text), Kw(kw.date, None),
                              Kw(kw.time, None), Kw(kw.media_url, None),
                              Kw(kw.botmsg, VBool(FALSE)), Kw(kw.room, None),
                              Kw(kw.opt, None), Kw(kw.rich_text, None)))

\* TextStyle.dumps / TextStyle.loads: nothing is caught here
TextStyle_dumps(ts) == json_dumps(TextStyle_dump(ts))

TextStyle_loads(jstr) ==
    LET text == IF jstr.t = "bytes" THEN decode_utf8(jstr) ELSE Ok(jstr) IN
    IF text.t = "raise" THEN text
    ELSE LET parsed == json_loads(text.v) IN
         IF parsed.t = "raise" THEN parsed
         ELSE TextStyle_load(parsed.v)

-----------------------------------------------------------------------------
(* Inputs of the codec calls                                               *)

Colors == {Color(VInt(fg), bg) : fg \in {0, 5}, bg \in {None, VInt(0), VInt(6)}}

ColorElems == {VInt(0), VInt(5), VInt(6), None, VStr(<<"1">>), VStr(<<"r">>)}

ColorInputs ==
    {None, VInt(0), VInt(5), VStr(<<>>), VStr(s_red), VStr(s_12)}
    \cup {VList(q) : q \in SeqsUpTo(ColorElems, MaxLen)}

StyleBits == 0..15

Names == {VStr(s_italic), VStr(s_bold), VStr(s_underline), VStr(s_sparkle), VStr(s_color)}

NameInputs ==
    {None, VInt(4), VStr(s_bold)} \cup {VList(q) : q \in SeqsUpTo(Names, MaxLen)}

\* a JSON object with the keys whose value is not Missing
RECURSIVE Obj(_)
Obj(pairs) ==
    IF Len(pairs) = 0 THEN <<>>
    ELSE (IF pairs[1][2].t = "missing" THEN <<>> ELSE <<pairs[1]>>) \o Obj(Tail(pairs))

EncColors ==
    {Missing, VList(<<>>), VList(<<VInt(5), VInt(6)>>), VList(<<VInt(5), None>>),
     VList(<<VInt(1), VInt(2), VInt(3)>>), VStr(s_red), VInt(5)}

EncStyles ==
    {Missing, VList(<<>>), VList(<<VStr(s_italic)>>),
     VList(<<VStr(s_bold), VStr(s_sparkle)>>), VList(<<VStr(s_color)>>), VInt(5)}

EncRecords ==
    {VDict(Obj(<< <<s_color, c>>, <<s_style, st>> >>)) : c \in EncColors, st \in EncStyles}

\* TextStyle values as callers construct them
Styles ==
    {TextStyle(c, f[1], f[2], f[3], NORMAL) :
        c \in {None, Color(VInt(5), VInt(6)), Color(VInt(0), None)},
        f \in {<<FALSE, FALSE, FALSE>>, <<TRUE, FALSE, FALSE>>, <<FALSE, TRUE, TRUE>>}}

Runs == {Run(ts, VStr(s_test)) : ts \in Styles}

RichTexts == {VList(q) : q \in SeqsUpTo(Runs, MaxRuns)}

\* rich text that is present but is not a list of (TextStyle, str)
BadRichTexts ==
    {VInt(5), VList(<<VInt(5)>>),
     VList(<<Run(VStr(s_bold), VStr(s_test))>>),
     VList(<<Run(TextStyle(None, TRUE, FALSE, FALSE, NORMAL), VInt(5))>>),
     VList(<<VTuple(<<TextStyle(None, TRUE, FALSE, FALSE, NORMAL)>>)>>)}

RunRecords ==
    {VDict(Obj(<< <<s_color, c>>, <<s_style, st>> >>)) :
        c \in {Missing, VList(<<VInt(5), VInt(6)>>), VList(<<VInt(1), VInt(2), VInt(3)>>),
               VStr(s_red), VList(<<VInt(5), None>>)},
        st \in {VList(<<>>), VList(<<VStr(s_italic)>>), VInt(5)}}

Entries ==
    {VList(<<r, VStr(s_test)>>) : r \in RunRecords}
    \cup {VList(<<VDict(<<>>)>>)}

EntryLists == {VList(q) : q \in SeqsUpTo(Entries, MaxRuns)}

Messages ==
    {Message(ch, VStr(s_tester), VStr(s_tester2), VStr(s_test), mt, None, d,
             None, b, None, o, rt) :
        ch \in {ChannelType.Telegram}, mt \in {MessageType.Text, MessageType.Photo},
        d \in {None, VStr(s_12)}, b \in {VBool(FALSE), VBool(TRUE)},
        o \in {None, VDict(<< <<s_key, VInt(1)>> >>)},
        rt \in {None} \cup RichTexts \cup BadRichTexts}

\* a message document as some producer wrote it
Wire(sender, mtype, botmsg, rich_text, opt) ==
    JsonText(VDict(Obj(<< <<s_channel, ChannelType.IRC>>, <<s_sender, sender>>,
                          <<s_receiver, VStr(s_tester2)>>, <<s_mtype, mtype>>,
                          <<s_content, VStr(s_test)>>, <<s_rich_text, rich_text>>,
                          <<s_botmsg, botmsg>>, <<s_opt, opt>> >>)))

WireInputs ==
    {Wire(sd, mt, b, rt, Missing) :
        sd \in {VStr(s_tester), Missing, VInt(5)},
        mt \in {Missing, MessageType.Text, MessageType.Video, VStr(s_bogus), VInt(5), None},
        b \in {Missing, VBool(TRUE), VStr(s_bogus)},
        rt \in {Missing, None}}
    \cup {Wire(VStr(s_tester), MessageType.Text, Missing, rt, Missing) : rt \in EntryLists}
    \cup {VStr(s_bogus), VStr(s_12), VStr(s_null), JsonText(VList(<<>>)),
          VBytes(FALSE, VStr(<<>>)), VBytes(TRUE, VStr(s_bogus)),
          VBytes(TRUE, Wire(VStr(s_tester), MessageType.Text, Missing, Missing, Missing))}

-----------------------------------------------------------------------------
(* Codec calls.  op names the call that ran last, arg its input, ret what  *)
(* it returned or raised; orig is the value that was encoded when the      *)
(* input of a decode is the output of the encode before it.               *)

Idle == op = "idle"

Call(name, input, result, from) ==
    /\ op' = name
    /\ arg' = input
    /\ ret' = result
    /\ orig' = from
    /\ UNCHANGED <<msgs, heap, seen, last>>

\* the output of the last call, when that call was `name` and returned
Fed(name) == op = name /\ ret.t = "ok"

CallColorSerialize ==
    /\ Idle
    /\ \E c \in Colors \cup {None} :
          Call("ColorField._serialize", c, ColorField_serialize(c), Missing)

CallColorDeserialize ==
    \/ /\ Idle
       /\ \E v \in ColorInputs :
             Call("ColorField._deserialize", v, ColorField_deserialize(v), Missing)
    \/ /\ Fed("ColorField._serialize")
       /\ Call("ColorField._deserialize", ret.v, ColorField_deserialize(ret.v), arg)

CallStyleSerialize ==
    /\ Idle
    /\ \E b \in {VInt(n) : n \in StyleBits} \cup {None} :
          Call("TextStyleField._serialize", b, TextStyleField_serialize(b), Missing)

CallStyleDeserialize ==
    \/ /\ Idle
       /\ \E v \in NameInputs :
             Call("TextStyleField._deserialize", v, TextStyleField_deserialize(v), Missing)
    \/ /\ Fed("TextStyleField._serialize")
       /\ Call("TextStyleField._deserialize", ret.v, TextStyleField_deserialize(ret.v), arg)

CallTextStyleLoad ==
    /\ Idle
    /\ \E d \in EncRecords \cup {None, VList(<<>>)} :
          Call("TextStyle.load", d, TextStyle_load(d), Missing)

CallTextStyleDumps ==
    /\ Idle
    /\ \E ts \in Styles : Call("TextStyle.dumps", ts, Ok(TextStyle_dumps(ts)), Missing)

CallTextStyleLoads ==
    \/ /\ Idle
       /\ \E w \in {JsonText(d) : d \in EncRecords} \cup {VStr(s_bogus), VBytes(FALSE, VStr(<<>>))} :
             Call("TextStyle.loads", w, TextStyle_loads(w), Missing)
    \/ /\ Fed("TextStyle.dumps")
       /\ Call("TextStyle.loads", ret.v, TextStyle_loads(ret.v), arg)

CallRichTextDeserialize ==
    /\ Idle
    /\ \E v \in EntryLists \cup {None} :
          Call("RichTextField._deserialize", v, RichTextField_deserialize(v), Missing)

CallMessageDumps ==
    /\ Idle
    /\ \E m \in Messages : Call("Message.dumps", m, Message_dumps(m), Missing)

CallMessageLoads ==
    \/ /\ Idle
       /\ \E w \in WireInputs : Call("Message.loads", w, Message_loads(w), Missing)
    \/ /\ Fed("Message.dumps")
       /\ Call("Message.loads", ret.v, Message_loads(ret.v), arg)

Init ==
    /\ op = "idle"
    /\ arg = None
    /\ ret = None
    /\ orig = Missing
    /\ msgs = <<>>
    /\ heap = <<>>
    /\ seen = {}
    /\ last = None

Next ==
    \/ CallColorSerialize
    \/ CallColorDeserialize
    \/ CallStyleSerialize
    \/ CallStyleDeserialize
    \/ CallTextStyleLoad
    \/ CallTextStyleDumps
    \/ CallTextStyleLoads
    \/ CallRichTextDeserialize
    \/ CallMessageDumps
    \/ CallMessageLoads

Spec == Init /\ [][Next]_vars

-----------------------------------------------------------------------------
(* Properties of the codec calls                                           *)

\* the JSON value a wire input holds, when it is decodable text and JSON
DocOf(w) ==
    LET text == IF w.t = "bytes" THEN w.s ELSE w IN json_loads(text)

StringFields ==
    {s_channel, s_sender, s_receiver, s_media_url, s_content, s_date, s_time, s_room}

\* a key of the document that is there, is not null and is refused by its field
IllTyped(doc) ==
    \/ \E f \in StringFields : Get(doc, f).t \notin {"missing", "none", "str"}
    \/ /\ Get(doc, s_mtype).t \notin {"missing", "none"}
       /\ Get(doc, s_mtype) \notin MtypeChoices
    \/ /\ Get(doc, s_botmsg).t \notin {"missing", "none"}
       /\ Boolean_deserialize(Get(doc, s_botmsg)).t = "raise"
    \/ /\ Get(doc, s_rich_text).t \notin {"missing", "none"}
       /\ RichTextField_deserialize(Get(doc, s_rich_text)).t = "raise"
    \/ Get(doc, s_opt).t \notin {"missing", "none", "dict"}

\* some step of decoding the wire input w fails
DecodeFails(w) ==
    \/ w.t = "bytes" /\ ~w.valid
    \/ DocOf(w).t = "raise"
    \/ DocOf(w).v.t # "dict"
    \/ \E f \in {s_channel, s_sender, s_receiver, s_content} :
          Get(DocOf(w).v, f).t \in {"missing", "none"}
    \/ IllTyped(DocOf(w).v)

\* C1: Message.loads never raises, and returns the sentinel Message whenever
\* a parsing, validation or construction step failed.
C1_LoadsTotal ==
    op = "Message.loads" =>
        /\ ret.t = "ok"
        /\ DecodeFails(arg) => ret.v = Sentinel

\* C2: a JSON object with valid channel, sender, receiver and content whose
\* mtype is a string outside the enumeration decodes to the sentinel Message.
C2_EnumRejected ==
    (/\ op = "Message.loads"
     /\ arg.t = "jsontext"
     /\ arg.j.t = "dict"
     /\ \A f \in {s_channel, s_sender, s_receiver, s_content} : Get(arg.j, f).t = "str"
     /\ Get(arg.j, s_mtype).t = "str"
     /\ Get(arg.j, s_mtype) \notin MtypeChoices)
    => ret = Ok(Sentinel)

\* rich text as the data model allows it: absent, or a list of (TextStyle, str)
WellFormedRichText(rt) ==
    \/ rt.t = "none"
    \/ /\ rt.t = "list"
       /\ \A k \in 1..Len(rt.q) :
             /\ rt.q[k].t = "tuple"
             /\ Len(rt.q[k].q) = 2
             /\ rt.q[k].q[1].t = "TextStyle"
             /\ rt.q[k].q[2].t = "str"

\* C3: Message.loads(m.dumps()) equals m field for field, for every valid m.
C3_MessageRoundTrip ==
    (/\ op = "Message.loads"
     /\ orig.t = "Message"
     /\ WellFormedRichText(orig.rich_text))
    => ret = Ok(orig)

\* C4: ColorField decode of ColorField encode of c is c again, for every Color
\* (bg an integer or absent) and for 'no color'.
C4_ColorRoundTrip ==
    (op = "ColorField._deserialize" /\ orig.t \in {"Color", "none"})
    => ret = Ok(orig)

\* C5: Message.dumps of a Message whose rich_text is present but malformed
\* raises; it returns no wire text.
C5_EncodeAllOrNothing ==
    (/\ op = "Message.dumps"
     /\ arg.rich_text.t # "none"
     /\ ~WellFormedRichText(arg.rich_text))
    => ret.t = "raise"

\* an entry that is not [encodedStyle, text] with a decodable colour and style
MalformedEntry(e) ==
    \/ Iter(e).t = "raise"
    \/ Len(Iter(e).v) # 2
    \/ LET st == Iter(e).v[1] IN
          \/ st.t # "dict"
          \/ /\ Get(st, s_color).t \notin {"missing", "none"}
             /\ ColorField_deserialize(Get(st, s_color)).t = "raise"
          \/ /\ Get(st, s_style).t # "missing"
             /\ Iter(Get(st, s_style)).t = "raise"

\* C6: RichTextField decode of entries with at least one malformed entry fails
\* as a whole.
C6_NoPartialDecode ==
    (/\ op = "RichTextField._deserialize"
     /\ arg.t = "list"
     /\ \E k \in 1..Len(arg.q) : MalformedEntry(arg.q[k]))
    => ret.t = "raise"

ColorBitIffColor(ts) == HasBit(ts.style, COLOR) <=> ts.color.t # "missing"

\* C7: every TextStyle that decoding produces has the COLOR bit set exactly
\* when it carries a color, and decoded style names never give the COLOR bit.
C7_ColorBitInvariant ==
    /\ (op \in {"TextStyle.load", "TextStyle.loads"} /\ ret.t = "ok")
          => ColorBitIffColor(ret.v)
    /\ (op = "RichTextField._deserialize" /\ ret.t = "ok" /\ ret.v.t = "list")
          => \A k \in 1..Len(ret.v.q) : ColorBitIffColor(ret.v.q[k].q[1])
    /\ (op = "TextStyleField._deserialize" /\ ret.t = "ok")
          => ~HasBit(ret.v.i, COLOR)

C7_Witness ==
    /\ op = "RichTextField._deserialize"
    /\ ret.t = "ok"
    /\ ret.v.t = "list"
    /\ Len(ret.v.q) = 2
    /\ ret.v.q[1].q[1].color.t = "Color"
    /\ HasBit(ret.v.q[1].q[1].style, ITALIC)
    /\ ret.v.q[2].q[1].color.t = "missing"

\* C8: ColorField decode classifies by shape: falsy gives 'no color', an
\* integer n gives Color{fg: n}, two integers give Color{fg, bg}, every other
\* input fails.
C8_ColorDecodeShape ==
    op = "ColorField._deserialize" =>
        IF ~Truthy(arg) THEN ret = Ok(None)
        ELSE IF arg.t = "int" THEN ret = Ok(Color(arg, None))
        ELSE IF /\ arg.t \in {"list", "tuple"}
                /\ Len(arg.q) = 2
                /\ arg.q[1].t = "int"
                /\ arg.q[2].t = "int"
             THEN ret = Ok(Color(arg.q[1], arg.q[2]))
        ELSE ret.t = "raise"

NameBit(names, name, bit) ==
    IF \E k \in 1..Len(names) : names[k] = VStr(name) THEN bit ELSE 0

\* C9: style names decode to the OR of the bits of the recognised names that
\* occur, whatever their order, repeats or unknown companions; style bits
\* encode to the set names in the order italic, bold, underline; decoding an
\* encoding gives the bits back with the COLOR bit cleared.
C9_StyleNameCodec ==
    /\ (op = "TextStyleField._deserialize" /\ arg.t = "list")
          => ret = Ok(VInt(NameBit(arg.q, s_italic, 2) + NameBit(arg.q, s_bold, 4)
                           + NameBit(arg.q, s_underline, 8)))
    /\ (op = "TextStyleField._serialize" /\ arg.t = "int")
          => ret = Ok(VList(SelectSeq(<<VStr(s_italic), VStr(s_bold), VStr(s_underline)>>,
                        LAMBDA n : \/ n = VStr(s_italic) /\ (arg.i \div 2) % 2 = 1
                                   \/ n = VStr(s_bold) /\ (arg.i \div 4) % 2 = 1
                                   \/ n = VStr(s_underline) /\ (arg.i \div 8) % 2 = 1)))
    /\ (op = "TextStyleField._deserialize" /\ orig.t = "int")
          => ret = Ok(VInt(orig.i - (orig.i % 2)))

C9_Witness ==
    /\ op = "TextStyleField._deserialize"
    /\ orig = VInt(15)
    /\ ret = Ok(VInt(14))

-----------------------------------------------------------------------------
(* Sequences of Message.loads / Message.dumps calls on the shared schema,  *)
(* with callers changing the opt mapping of the Messages they got back.    *)
(* msgs are the Message objects returned so far, their opt a reference     *)
(* into heap; seen keeps, for every wire text, what its first decode       *)
(* returned; last describes the call that ran last.                        *)

VRef(a) == [t |-> "ref", a |-> a]

\* the Message with its opt mapping read through the reference
Deref(m) == [m EXCEPT !.opt = heap[m.opt.a]]

\* `self.opt = opt or {}` with a mutable object kept by mistake between calls
StoreOpt_aliased(h, opt) ==
    IF Truthy(opt) \/ Len(h) = 0
    THEN [ref |-> Len(h) + 1, heap |-> Append(h, IF Truthy(opt) THEN opt ELSE VDict(<<>>))]
    ELSE [ref |-> 1, heap |-> h]

\* `self.opt = opt or {}`: the mapping the parser just built, or a new empty
\* one; in both cases an object no other Message refers to
StoreOpt(h, opt) ==
    [ref |-> Len(h) + 1, heap |-> Append(h, IF Truthy(opt) THEN opt ELSE VDict(<<>>))]

CallWires ==
    {VStr(s_bogus),
     Wire(VStr(s_tester), MessageType.Text, Missing, Missing, Missing),
     Wire(VStr(s_tester), MessageType.Photo, VBool(TRUE), Missing,
          VDict(<< <<s_key, VInt(1)>> >>))}

\* the keys callers add, in the order they add them
CallerKeys == <<s_room, s_date, s_time, s_opt>>

HasKey(d, key) == \E k \in 1..Len(d.d) : d.d[k][1] = key

\* the Message m is handed to the caller, its opt mapping stored at o.ref
Return(w, m, o) ==
    /\ msgs' = Append(msgs, [m EXCEPT !.opt = VRef(o.ref)])
    /\ heap' = o.heap
    /\ seen' = IF \E e \in seen : e.w = w THEN seen
               ELSE seen \cup {[w |-> w, v |-> [m EXCEPT !.opt = o.heap[o.ref]]]}
    /\ last' = [t |-> "loads", w |-> w, h |-> Len(msgs) + 1]

Construct(w, r) == r.t = "ok" /\ Return(w, r.v, StoreOpt(heap, r.v.opt))

Loads ==
    /\ Len(msgs) < MaxObjs
    /\ \E w \in CallWires \cup (IF last.t = "dumps" THEN {last.w} ELSE {}) :
          Construct(w, Message_loads(w))
    /\ UNCHANGED <<op, arg, ret, orig>>

Dumps ==
    /\ \E h \in 1..Len(msgs) :
          LET r == Message_dumps(Deref(msgs[h])) IN
          /\ r.t = "ok"
          /\ last' = [t |-> "dumps", w |-> r.v, h |-> h, pre |-> Deref(msgs[h])]
    /\ UNCHANGED <<op, arg, ret, orig, msgs, heap, seen>>

\* a caller adds a key to the opt mapping of a Message it was handed
MutateOpt ==
    /\ \E h \in 1..Len(msgs) :
          LET a == msgs[h].opt.a
              key == CallerKeys[CHOOSE k \in 1..Len(CallerKeys) :
                                   /\ ~HasKey(heap[a], CallerKeys[k])
                                   /\ \A j \in 1..(k - 1) : HasKey(heap[a], CallerKeys[j])]
          IN
          /\ Len(heap[a].d) < MaxKeys
          /\ heap' = [heap EXCEPT ![a] = VDict(Append(@.d, <<key, VInt(1)>>))]
          /\ last' = [t |-> "mutate", h |-> h]
    /\ UNCHANGED <<op, arg, ret, orig, msgs, seen>>

NextCalls == Loads \/ Dumps \/ MutateOpt

SpecCalls == Init /\ [][NextCalls]_vars

\* decoding w ends in the except branch of Message.loads
TakesExceptBranch(w) ==
    \/ DocOf(w).t = "raise"
    \/ DocOf(w).v.t # "dict"
    \/ \E f \in {s_channel, s_sender, s_receiver, s_content} :
          Get(DocOf(w).v, f).t # "str"

\* C10: the result of loads(w) depends only on w: a later loads(w) returns the
\* field values the first loads(w) returned, whatever callers did to earlier
\* results; a failing decode returns the sentinel with an empty opt that no
\* earlier Message shares; dumps(m) leaves m as it was.
C10_CallIndependence ==
    /\ last.t = "loads" =>
          /\ \A e \in seen : e.w = last.w => Deref(msgs[last.h]) = e.v
          /\ TakesExceptBranch(last.w) => Deref(msgs[last.h]) = Sentinel
          /\ \A h \in 1..Len(msgs) : h # last.h => msgs[h].opt # msgs[last.h].opt
    /\ last.t = "dumps" => Deref(msgs[last.h]) = last.pre

C10_Witness ==
    /\ last.t = "loads"
    /\ last.h = 2
    /\ TakesExceptBranch(last.w)
    /\ \E e \in seen : e.w = last.w /\ e.v = Sentinel
    /\ TakesExceptBranch(VStr(s_bogus)) /\ Len(heap[1].d) > 0
    /\ Deref(msgs[1]) # Sentinel
    /\ [Deref(msgs[1]) EXCEPT !.opt = VDict(<<>>)] = Sentinel

====
